---- MODULE Spec2Model ----
(***************************************************************************)
(* Data-access layer of the food blog backend (database.py) and the parts  *)
(* of the command line program (blog.py) that drive it.  The store is the  *)
(* SQLite file named by db_name; db holds its committed contents and last  *)
(* holds the most recent call, its arguments and what the caller observed. *)
(***************************************************************************)
EXTENDS Integers, Sequences, FiniteSets, TLC

VARIABLES db, last

vars == <<db, last>>

(* ------------------------------ bounds --------------------------------- *)

\* rows a table may hold
MaxRows == 2
\* length of the value sequence handed to insert_many_db
MaxBatch == 2
\* length of the ingredient list and of the meal list handed to find_recipes
MaxArgs == 2

(* --------------------------- values and names -------------------------- *)

\* Python's None; as a stored value, SQL NULL
None == "None"

\* the largest element of a set of integers
Max(S) == CHOOSE x \in S : \A y \in S : y <= x

\* all sequences over S of length 0..n
SeqsUpTo(S, n) == UNION {[1..k -> S] : k \in 0..n}

\* the keys of the seed dictionary of main, in insertion order
data_keys == <<"meals", "ingredients", "measures">>

\* the seed data of main, cut down to two meals, two ingredients and the empty measure
data == [meals |-> <<"breakfast", "lunch">>, ingredients |-> <<"cacao", "sugar">>, measures |-> <<"">>]

\* recipe names a user enters
RecipeNames == {"cake", "pie"}

\* amounts a user enters for an ingredient line
Amounts == {1}

\* recipe descriptions a user enters
RecipeDescriptions == {"sweet"}

\* a table name the registry does not know
UnsupportedTables == {"serve"}

(* ------------------------------- schema -------------------------------- *)

\* the registry: table name -> name column, None for any other table
attribute_conf(table_name) ==
    CASE table_name = "meals" -> "meal_name"
      [] table_name = "ingredients" -> "ingredient_name"
      [] table_name = "measures" -> "measure_name"
      [] table_name = "recipes" -> "recipe_name"
      [] OTHER -> None

\* INTEGER PRIMARY KEY column of each table
PrimaryKey(table_name) ==
    CASE table_name = "meals" -> "meal_id"
      [] table_name = "ingredients" -> "ingredient_id"
      [] table_name = "measures" -> "measure_id"
      [] table_name = "recipes" -> "recipe_id"
      [] table_name = "serve" -> "serve_id"
      [] table_name = "quantity" -> "quantity_id"

\* tables whose name column is declared NOT NULL
NotNullName == {"meals", "ingredients", "recipes"}

\* tables whose name column is declared UNIQUE
UniqueName == {"meals", "ingredients", "measures"}

\* tables whose key is AUTOINCREMENT (ids are never reused)
AutoIncrement == {"serve", "quantity"}

\* every table of the schema
AllTables == {"meals", "ingredients", "measures", "recipes", "serve", "quantity"}

\* the store after generate_tables ran on a new file
EmptyStore == [meals |-> {}, ingredients |-> {}, measures |-> {}, recipes |-> {}, serve |-> {}, quantity |-> {}, sqlite_sequence |-> [serve |-> 0, quantity |-> 0]]

\* the rowid SQLite gives the next row of a table
NextRowid(d, table_name) ==
    LET ids == {r[PrimaryKey(table_name)] : r \in d[table_name]}
        top == IF ids = {} THEN 0 ELSE Max(ids)
    IN  IF table_name \in AutoIncrement
        THEN (IF d.sqlite_sequence[table_name] > top THEN d.sqlite_sequence[table_name] ELSE top) + 1
        ELSE top + 1

\* the rows of a table in rowid order (the order of a table scan)
RECURSIVE ScanFrom(_, _)
ScanFrom(rows, pk) ==
    IF rows = {} THEN <<>>
    ELSE LET first == CHOOSE r \in rows : \A s \in rows : r[pk] <= s[pk]
         IN  <<first>> \o ScanFrom(rows \ {first}, pk)

\* SELECT * FROM {table_name}
Scan(d, table_name) == ScanFrom(d[table_name], PrimaryKey(table_name))

(* ----------------------------- connections ----------------------------- *)

\* sqlite3.connect(db_name): a usable handle; SQLite leaves foreign keys off
connection == [closed |-> FALSE, foreign_keys |-> FALSE]

\* the handles a caller passes in: one from connection(), still open or closed since
Handles == {connection, [connection EXCEPT !.closed = TRUE]}

\* the decorator: the handle the wrapped function runs with.  On a usable
\* handle the probe succeeds and conn.excecute raises AttributeError; on a
\* closed one the probe raises ProgrammingError; both are caught and the
\* store is reopened, so the PRAGMA never runs.
db_connect(conn) ==
    IF conn.closed THEN connection ELSE connection

\* a block that commits whatever ran before the exception
with_conn_no_rollback(before, r) == r

\* "with conn:": commit when the block ended normally, roll back when it raised
with_conn(before, r) ==
    IF r.exc = "none" THEN r ELSE [db |-> before, exc |-> r.exc]

\* the outcome of a statement that ran
Ok(d) == [db |-> d, exc |-> "none"]

\* the outcome of a statement that raised
Raise(d, e) == [db |-> d, exc |-> e]

(* ------------------------------ statements ----------------------------- *)

\* a new row of a name table
NameRow(d, table_name, value) ==
    LET id == NextRowid(d, table_name)
    IN  IF table_name = "recipes"
        THEN [recipe_id |-> id, recipe_name |-> value, recipe_description |-> None]
        ELSE (PrimaryKey(table_name) :> id) @@ (attribute_conf(table_name) :> value)

\* INSERT INTO {table_name} ({attribute_column}) VALUES (:value)
InsertName(d, table_name, value) ==
    LET col == attribute_conf(table_name)
    IN  IF table_name \in NotNullName /\ value = None
        THEN Raise(d, "IntegrityError")
        ELSE IF table_name \in UniqueName /\ value # None /\ \E r \in d[table_name] : r[col] = value
        THEN Raise(d, "IntegrityError")
        ELSE Ok([d EXCEPT ![table_name] = @ \cup {NameRow(d, table_name, value)}])

\* curs.executemany: the statement once per value, stopping at the first that raises
RECURSIVE executemany(_, _, _)
executemany(d, table_name, values) ==
    IF values = <<>> THEN Ok(d)
    ELSE LET r == InsertName(d, table_name, Head(values))
         IN  IF r.exc # "none" THEN r ELSE executemany(r.db, table_name, Tail(values))

\* rows of child tables that reference a row of a reference table
Referenced(d, table_name) ==
    CASE table_name = "meals" -> \E s \in d.serve : \E m \in d.meals : s.meal_id = m.meal_id
      [] table_name = "ingredients" -> \E q \in d.quantity : \E i \in d.ingredients : q.ingredient_id = i.ingredient_id
      [] table_name = "measures" -> \E q \in d.quantity : \E m \in d.measures : q.measure_id = m.measure_id
      [] OTHER -> FALSE

\* a DELETE that removes nothing
DeleteNothing(d, conn, table_name) == Ok(d)

\* DELETE FROM {table}
DeleteAll(d, conn, table_name) ==
    IF conn.foreign_keys /\ Referenced(d, table_name)
    THEN Raise(d, "IntegrityError")
    ELSE Ok([d EXCEPT ![table_name] = {}])

(* --------------------------- the operations ---------------------------- *)
(* Each operation is a function from the committed store, the handle the   *)
(* body runs with and the arguments to [db, exc, ret]: the store it leaves, *)
(* the exception it raises ("none" when it returns) and the value returned. *)

\* the outcome of a call whose statements ended as r: it returns value unless r raised
Returns(r, value) == [db |-> r.db, exc |-> r.exc, ret |-> IF r.exc = "none" THEN value ELSE None]

\* a table list that also names recipes
tables_with_recipes == <<"meals", "ingredients", "measures", "recipes">>

\* the tables truncate_tables clears
tables == <<"meals", "ingredients", "measures">>

\* DELETE FROM each of the three reference tables, in one "with conn:" block
RECURSIVE DeleteEach(_, _, _)
DeleteEach(d, conn, names) ==
    IF names = <<>> THEN Ok(d)
    ELSE LET r == DeleteAll(d, conn, Head(names))
         IN  IF r.exc # "none" THEN r ELSE DeleteEach(r.db, conn, Tail(names))

\* truncate_tables is not decorated: it runs on the caller's handle as it is
truncate_tables_call(d, conn) ==
    IF conn.closed THEN Returns(Raise(d, "ProgrammingError"), None)
    ELSE Returns(with_conn(d, DeleteEach(d, conn, tables)), None)

\* generate_tables: CREATE TABLE IF NOT EXISTS for the six tables; rows are untouched
generate_tables_call(d, conn) == Returns(Ok(d), None)

\* the statement insert_db builds, "INSERT INTO (col) VALUES (:value)", names no
\* table: SQLite rejects it when it is prepared
InsertNoTable(d, attribute_column, value) == Raise(d, "OperationalError")

insert_db_call(d, conn, args) ==
    IF Len(args) # 2 THEN Returns(Raise(d, "ValueError: arguments"), None)
    ELSE IF attribute_conf(args[1]) = None THEN Returns(Raise(d, "ValueError: Unsupported table name"), None)
    ELSE Returns(with_conn(d, InsertNoTable(d, attribute_conf(args[1]), args[2])), None)

insert_ingredient_measure_call(d, conn, args) ==
    IF Len(args) # 2 THEN Returns(Raise(d, "ValueError: arguments"), None)
    ELSE IF attribute_conf(args[1]) = None THEN Returns(Raise(d, "ValueError: Unsupported table name"), None)
    ELSE Returns(with_conn(d, InsertName(d, args[1], args[2])), None)

insert_many_db_call(d, conn, args) ==
    IF Len(args) # 2 THEN Returns(Raise(d, "ValueError: arguments"), None)
    ELSE IF attribute_conf(args[1]) = None THEN Returns(Raise(d, "ValueError: Unsupported table name"), None)
    ELSE Returns(with_conn(d, executemany(d, args[1], args[2])), None)

\* INSERT INTO recipes([recipe_name], [recipe_description]) VALUES (:value1, :value2)
InsertRecipe(d, recipe_name, recipe_desc) ==
    IF recipe_name = None THEN Raise(d, "IntegrityError")
    ELSE Ok([d EXCEPT !.recipes = @ \cup {[recipe_id |-> NextRowid(d, "recipes"), recipe_name |-> recipe_name, recipe_description |-> recipe_desc]}])

insert_to_recipe_call(d, conn, args) ==
    IF Len(args) # 2 THEN Returns(Raise(d, "ValueError: arguments"), None)
    ELSE Returns(with_conn(d, InsertRecipe(d, args[1], args[2])), None)

\* a row with this key exists in the table
Exists(d, table_name, id) == \E r \in d[table_name] : r[PrimaryKey(table_name)] = id

\* INSERT INTO serve([recipe_id], [meal_id]) VALUES (:value1, :value2)
InsertServe(d, conn, recipe_id, meal_id) ==
    IF conn.foreign_keys /\ ~(Exists(d, "recipes", recipe_id) /\ Exists(d, "meals", meal_id))
    THEN Raise(d, "IntegrityError")
    ELSE LET id == NextRowid(d, "serve")
         IN  Ok([d EXCEPT !.serve = @ \cup {[serve_id |-> id, recipe_id |-> recipe_id, meal_id |-> meal_id]},
                          !.sqlite_sequence.serve = id])

insert_to_serve_call(d, conn, args) ==
    IF Len(args) # 2 THEN Returns(Raise(d, "ValueError: arguments"), None)
    ELSE Returns(with_conn(d, InsertServe(d, conn, args[1], args[2])), None)

\* INSERT INTO {table_name}(quantity, [recipe_id], [measure_id], [ingredient_id]) VALUES (...)
InsertQuantity(d, conn, table_name, quantity, recipe_id, measure_id, ingredient_id) ==
    IF table_name # "quantity" THEN Raise(d, "OperationalError")
    ELSE IF conn.foreign_keys /\ ~(Exists(d, "recipes", recipe_id) /\ Exists(d, "measures", measure_id) /\ Exists(d, "ingredients", ingredient_id))
    THEN Raise(d, "IntegrityError")
    ELSE LET id == NextRowid(d, "quantity")
         IN  Ok([d EXCEPT !.quantity = @ \cup {[quantity_id |-> id, quantity |-> quantity, recipe_id |-> recipe_id, measure_id |-> measure_id, ingredient_id |-> ingredient_id]},
                          !.sqlite_sequence.quantity = id])

insert_to_quantity_call(d, conn, args) ==
    IF Len(args) # 5 THEN Returns(Raise(d, "ValueError: arguments"), None)
    ELSE Returns(with_conn(d, InsertQuantity(d, conn, args[1], args[2], args[3], args[4], args[5])), None)

\* db_update and db_remove ask for three arguments and then unpack two
db_update_call(d, conn, args) ==
    IF Len(args) # 3 THEN Returns(Raise(d, "ValueError: arguments"), None)
    ELSE Returns(Raise(d, "ValueError: too many values to unpack"), None)

db_remove_call(d, conn, args) ==
    IF Len(args) # 3 THEN Returns(Raise(d, "ValueError: arguments"), None)
    ELSE Returns(Raise(d, "ValueError: too many values to unpack"), None)

\* SELECT * FROM {table_name} WHERE {attribute_column} = :value, then fetchone:
\* <<>> stands for None (no row), <<row>> for the first row of the scan
SelectWhere(d, table_name, value) ==
    SelectSeq(Scan(d, table_name), LAMBDA r : value # None /\ r[attribute_conf(table_name)] = value)

\* curs.fetchone()
fetchone(rows) == IF rows = <<>> THEN <<>> ELSE <<Head(rows)>>

select_db_call(d, conn, args) ==
    IF Len(args) # 2 THEN Returns(Raise(d, "ValueError: arguments"), None)
    ELSE IF attribute_conf(args[1]) = None THEN Returns(Raise(d, "ValueError: Unsupported table name"), None)
    ELSE Returns(Ok(d), fetchone(SelectWhere(d, args[1], args[2])))

\* SELECT * FROM {table_name[0]}: the registry is not consulted
select_all_db_call(d, conn, args) ==
    IF Len(args) # 1 THEN Returns(Raise(d, "ValueError: arguments"), None)
    ELSE IF args[1] \notin AllTables THEN Returns(Raise(d, "OperationalError"), None)
    ELSE Returns(Ok(d), Scan(d, args[1]))

(* ------------------------------- search -------------------------------- *)

\* the elements of a sequence
Range(seq) == {seq[k] : k \in 1..Len(seq)}

\* recipes r JOIN quantity q JOIN ingredients i JOIN serve s JOIN meals m, on the ids
Joined(d) ==
    {j \in [r : d.recipes, q : d.quantity, i : d.ingredients, s : d.serve, m : d.meals] :
        /\ j.r.recipe_id = j.q.recipe_id
        /\ j.q.ingredient_id = j.i.ingredient_id
        /\ j.r.recipe_id = j.s.recipe_id
        /\ j.s.meal_id = j.m.meal_id}

\* the sequences that list every element of a set once: the orders in which a
\* GROUP BY without ORDER BY may yield its groups
Orders(S) == {o \in [1..Cardinality(S) -> S] : \A g \in S : \E k \in 1..Cardinality(S) : o[k] = g}

\* a filter on the ingredient that was asked for
SingleWhereAsked(d, ingredients, meals) ==
    {j \in Joined(d) : j.i.ingredient_name = ingredients[1] /\ j.m.meal_name \in Range(meals)}

\* one ingredient: WHERE i.ingredient_name = 'cacao' AND m.meal_name IN (meals)
SingleWhere(d, ingredients, meals) ==
    {j \in Joined(d) : j.i.ingredient_name = "cacao" /\ j.m.meal_name \in Range(meals)}

\* GROUP BY m.meal_name, SELECT r.recipe_name: one row per meal name, holding the
\* recipe name of some row of the group; every fetchall the engine may return
SingleFetch(d, ingredients, meals) ==
    LET rows == SingleWhere(d, ingredients, meals)
        groups == {j.m.meal_name : j \in rows}
        NamesIn(g) == {j.r.recipe_name : j \in {x \in rows : x.m.meal_name = g}}
    IN  {[k \in 1..Cardinality(groups) |-> pick[o[k]]] :
            o \in Orders(groups), pick \in {f \in [groups -> RecipeNames] : \A g \in groups : f[g] \in NamesIn(g)}}

\* several ingredients: WHERE (i.ingredient_name = X OR ...) AND m.meal_name IN (meals)
MultiWhere(d, ingredients, meals) ==
    {j \in Joined(d) : j.i.ingredient_name \in Range(ingredients) /\ j.m.meal_name \in Range(meals)}

\* GROUP BY r.recipe_name HAVING COUNT(DISTINCT i.ingredient_name) = len(ingredients)
MultiGroups(d, ingredients, meals) ==
    LET rows == MultiWhere(d, ingredients, meals)
    IN  {g \in {j.r.recipe_name : j \in rows} :
            Cardinality({j.i.ingredient_name : j \in {x \in rows : x.r.recipe_name = g}}) = Len(ingredients)}

\* every fetchall the engine may return: the groups in some order
MultiFetch(d, ingredients, meals) == Orders(MultiGroups(d, ingredients, meals))

\* ", ".join(recipe[0] for recipe in result)
RECURSIVE Join(_)
Join(names) ==
    IF names = <<>> THEN ""
    ELSE IF Len(names) = 1 THEN names[1]
    ELSE names[1] \o ", " \o Join(Tail(names))

\* the outcomes of find_recipes: with no ingredient the WHERE clause is "()",
\* which SQLite rejects; an empty meal list gives "IN ()", which matches nothing
find_recipes_calls(d, conn, args) ==
    LET ingredients == args[1]
        meals == args[2]
    IN  IF Len(ingredients) = 1
        THEN {Returns(Ok(d), Join(f)) : f \in SingleFetch(d, ingredients, meals)}
        ELSE IF Len(ingredients) = 0
        THEN {Returns(Raise(d, "OperationalError"), None)}
        ELSE {Returns(Ok(d), Join(f)) : f \in MultiFetch(d, ingredients, meals)}

(* ----------------------------- the program ----------------------------- *)

\* main, lines 73-86: open the store, create the tables, clear the reference
\* tables and insert the seed values table by table; an exception ends the run
RECURSIVE SeedEach(_, _, _, _)
SeedEach(d, conn, seed, keys) ==
    IF keys = <<>> THEN Returns(Ok(d), None)
    ELSE LET r == insert_many_db_call(d, db_connect(conn), <<Head(keys), seed[Head(keys)]>>)
         IN  IF r.exc # "none" THEN r ELSE SeedEach(r.db, conn, seed, Tail(keys))

main_startup_call(d, seed) ==
    LET g == generate_tables_call(d, db_connect(connection))
        t == truncate_tables_call(g.db, connection)
    IN  IF t.exc # "none" THEN t ELSE SeedEach(t.db, connection, seed, data_keys)

\* main, lines 116-117: insert_to_serve(connection, result[0], item) for each
\* number typed; result is the row select_db returned for the recipe name, and
\* result[0] of no row is a TypeError
RECURSIVE ServeEach(_, _, _, _)
ServeEach(d, conn, result, dishes_int) ==
    IF dishes_int = <<>> THEN Returns(Ok(d), None)
    ELSE IF result = <<>> THEN Returns(Raise(d, "TypeError"), None)
    ELSE LET r == insert_to_serve_call(d, db_connect(conn), <<result[1].recipe_id, Head(dishes_int)>>)
         IN  IF r.exc # "none" THEN r ELSE ServeEach(r.db, conn, result, Tail(dishes_int))

\* main, lines 136-147: "black" and "blue" are completed to the berry's name;
\* a line of two words names no measure
ingredient(line) == IF line.ing \in {"black", "blue"} THEN line.ing \o "berry" ELSE line.ing

\* main, lines 160-162: one insert_to_quantity per line, with the first
\* character of the typed quantity and the ids of the rows select_db found for
\* the measure and the ingredient; [0] of a name that was not found is a TypeError
RECURSIVE QuantityEach(_, _, _, _)
QuantityEach(d, conn, result, lines) ==
    IF lines = <<>> THEN Returns(Ok(d), None)
    ELSE LET result_mea == select_db_call(d, db_connect(conn), <<"measures", Head(lines).meas>>).ret
             result_ing == select_db_call(d, db_connect(conn), <<"ingredients", ingredient(Head(lines))>>).ret
         IN  IF result = <<>> \/ result_mea = <<>> \/ result_ing = <<>> THEN Returns(Raise(d, "TypeError"), None)
             ELSE LET r == insert_to_quantity_call(d, db_connect(conn), <<"quantity", Head(Head(lines).quant), result[1].recipe_id, result_mea[1].measure_id, result_ing[1].ingredient_id>>)
                  IN  IF r.exc # "none" THEN r ELSE QuantityEach(r.db, conn, result, Tail(lines))

\* main, lines 95-162: one pass of the entry loop for a recipe name that is not
\* empty.  The recipe is inserted, then looked up again by its name, and the
\* row found gives the recipe id of the serve and quantity rows
main_entry_call(d, conn, recipe_name, recipe_desc, dishes_int, lines) ==
    LET a == insert_to_recipe_call(d, db_connect(conn), <<recipe_name, recipe_desc>>)
        result == select_db_call(a.db, db_connect(conn), <<"recipes", recipe_name>>).ret
        s == ServeEach(a.db, conn, result, dishes_int)
    IN  IF a.exc # "none" THEN a
        ELSE IF s.exc # "none" THEN s
        ELSE QuantityEach(s.db, conn, result, lines)

\* seed dictionaries: the first k values of each table of data, as written or reversed
Reverse(seq) == [k \in 1..Len(seq) |-> seq[Len(seq) + 1 - k]]

\* the first k elements of a sequence, all of it when it is shorter
Prefix(seq, k) == SubSeq(seq, 1, IF k < Len(seq) THEN k ELSE Len(seq))

SeedData == {[t \in DOMAIN data |-> Prefix(data[t], k)] : k \in 0..MaxBatch} \cup {[t \in DOMAIN data |-> Prefix(Reverse(data[t]), k)] : k \in 0..MaxBatch}

\* the values callers pass for a table's name column
ValuesFor(table_name) ==
    IF table_name \in DOMAIN data THEN Range(data[table_name])
    ELSE IF table_name = "recipes" THEN {"cake", None}
    ELSE {"cacao"}

\* meal lists of a search: the seeded meals, each named or not, in seed order
RECURSIVE SubLists(_)
SubLists(seq) ==
    IF seq = <<>> THEN {<<>>}
    ELSE LET rest == SubLists(Tail(seq)) IN rest \cup {<<Head(seq)>> \o x : x \in rest}

MealLists == SubLists(data.meals)

\* the quantities a user types, as their characters
Quantities == {<<1, 2>>}

\* the ingredient lines a user types: quantity, measure ("" when left out), ingredient
Lines == [quant : Quantities, meas : Range(data.measures), ing : Range(data.ingredients)]

\* the table names callers pass to the generic primitives
TableArgs == DOMAIN data \cup {"recipes"} \cup UnsupportedTables

\* no table holds more than MaxRows rows
Within(d) == \A t \in AllTables : Cardinality(d[t]) <= MaxRows

\* the wrapper, lines 67-74: the handles it opens for one call.  The probe
\* raises on a closed handle and conn.excecute raises on a usable one, so
\* connection(db_name) runs either way and the body gets the new handle
wrapper_opens(conn) == IF conn.closed THEN 1 ELSE 1

\* the primitives that end with conn.close()
closing == {"select_db", "select_all_db", "find_recipes"}

\* the handles a call opened for itself and has not closed when it returns or
\* raises.  truncate_tables is not decorated and opens none; the startup makes
\* one decorated call for the tables and one per seeded table; the closing
\* primitives reach conn.close() only when nothing raised before it; no other
\* primitive closes the handle the wrapper gave it; a pass of the entry loop
\* inserts the recipe, a serve row per meal number and a quantity row per line
Unreleased(op, conn, args, r) ==
    IF op = "truncate_tables" THEN 0
    ELSE IF op = "main_startup" THEN wrapper_opens(conn) * (1 + Len(data_keys))
    ELSE IF op = "main_entry" THEN wrapper_opens(conn) * (1 + Len(args[3]) + Len(args[4]))
    ELSE IF op \in closing /\ r.exc = "none" THEN 0
    ELSE wrapper_opens(conn)

\* what a call leaves for the caller to see
Record(op, conn, args, r) == [op |-> op, conn |-> conn, args |-> args, exc |-> r.exc, ret |-> r.ret, unreleased |-> Unreleased(op, conn, args, r)]

generate_tables(conn) ==
    LET r == generate_tables_call(db, db_connect(conn))
    IN  /\ Within(r.db)
        /\ db' = r.db
        /\ last' = Record("generate_tables", conn, <<>>, r)

truncate_tables(conn) ==
    LET r == truncate_tables_call(db, conn)
    IN  /\ Within(r.db)
        /\ db' = r.db
        /\ last' = Record("truncate_tables", conn, <<>>, r)

main_startup(seed) ==
    LET r == main_startup_call(db, seed)
    IN  /\ Within(r.db)
        /\ db' = r.db
        /\ last' = Record("main_startup", connection, <<seed>>, r)

insert_db(conn, args) ==
    LET r == insert_db_call(db, db_connect(conn), args)
    IN  /\ Within(r.db)
        /\ db' = r.db
        /\ last' = Record("insert_db", conn, args, r)

insert_ingredient_measure(conn, args) ==
    LET r == insert_ingredient_measure_call(db, db_connect(conn), args)
    IN  /\ Within(r.db)
        /\ db' = r.db
        /\ last' = Record("insert_ingredient_measure", conn, args, r)

insert_many_db(conn, args) ==
    LET r == insert_many_db_call(db, db_connect(conn), args)
    IN  /\ Within(r.db)
        /\ db' = r.db
        /\ last' = Record("insert_many_db", conn, args, r)

insert_to_recipe(conn, args) ==
    LET r == insert_to_recipe_call(db, db_connect(conn), args)
    IN  /\ Within(r.db)
        /\ db' = r.db
        /\ last' = Record("insert_to_recipe", conn, args, r)

insert_to_serve(conn, args) ==
    LET r == insert_to_serve_call(db, db_connect(conn), args)
    IN  /\ Within(r.db)
        /\ db' = r.db
        /\ last' = Record("insert_to_serve", conn, args, r)

insert_to_quantity(conn, args) ==
    LET r == insert_to_quantity_call(db, db_connect(conn), args)
    IN  /\ Within(r.db)
        /\ db' = r.db
        /\ last' = Record("insert_to_quantity", conn, args, r)

db_update(conn, args) ==
    LET r == db_update_call(db, db_connect(conn), args)
    IN  /\ Within(r.db)
        /\ db' = r.db
        /\ last' = Record("db_update", conn, args, r)

db_remove(conn, args) ==
    LET r == db_remove_call(db, db_connect(conn), args)
    IN  /\ Within(r.db)
        /\ db' = r.db
        /\ last' = Record("db_remove", conn, args, r)

select_db(conn, args) ==
    LET r == select_db_call(db, db_connect(conn), args)
    IN  /\ Within(r.db)
        /\ db' = r.db
        /\ last' = Record("select_db", conn, args, r)

select_all_db(conn, args) ==
    LET r == select_all_db_call(db, db_connect(conn), args)
    IN  /\ Within(r.db)
        /\ db' = r.db
        /\ last' = Record("select_all_db", conn, args, r)

find_recipes(conn, args) ==
    \E r \in find_recipes_calls(db, db_connect(conn), args) :
        /\ Within(r.db)
        /\ db' = r.db
        /\ last' = Record("find_recipes", conn, args, r)

main_entry(conn, recipe_name, recipe_desc, dishes_int, lines) ==
    LET r == main_entry_call(db, conn, recipe_name, recipe_desc, dishes_int, lines)
    IN  /\ Within(r.db)
        /\ db' = r.db
        /\ last' = Record("main_entry", conn, <<recipe_name, recipe_desc, dishes_int, lines>>, r)

(* --------------------------- specifications ---------------------------- *)

\* the record of opening the store
Opened == [op |-> "connection", conn |-> connection, args |-> <<>>, exc |-> "none", ret |-> None, unreleased |-> 0]

\* a store file left by an earlier run: one recipe, served at the first meal, with
\* one ingredient line, entered after seeding
EarlierRun ==
    LET a == main_startup_call(EmptyStore, data).db
        b == insert_to_recipe_call(a, connection, <<"cake", "sweet">>).db
        c == insert_to_serve_call(b, connection, <<1, 1>>).db
    IN  insert_to_quantity_call(c, connection, <<"quantity", 1, 1, 1, 1>>).db

\* Record access: the generic primitives and the schema manager, on a new store
\* file or on the file of an earlier run
Init ==
    /\ db \in {EmptyStore, EarlierRun}
    /\ last = Opened

Next ==
    \/ \E conn \in Handles : generate_tables(conn)
    \/ \E conn \in Handles : truncate_tables(conn)
    \/ \E seed \in SeedData : main_startup(seed)
    \/ \E t \in TableArgs : \E v \in ValuesFor(t) : insert_db(connection, <<t, v>>)
    \/ \E t \in TableArgs : \E v \in ValuesFor(t) : insert_ingredient_measure(connection, <<t, v>>)
    \/ \E t \in TableArgs : \E vs \in SeqsUpTo(ValuesFor(t), MaxBatch) : insert_many_db(connection, <<t, vs>>)
    \/ \E t \in TableArgs : \E v \in ValuesFor(t) : db_update(connection, <<t, v>>)
    \/ \E t \in TableArgs : \E v \in ValuesFor(t) : db_remove(connection, <<t, v>>)
    \/ \E t \in TableArgs : \E v \in ValuesFor(t) : select_db(connection, <<t, v>>)
    \/ \E t \in AllTables : select_all_db(connection, <<t>>)

Spec == Init /\ [][Next]_vars

\* Recipe entry and search: a run of the program after its startup
InitEntry ==
    /\ db = main_startup_call(EmptyStore, data).db
    /\ last = Opened

\* the ids a caller passes are those of the seeded rows and of the recipes a
\* store within bounds can hold, entered already or not
NextEntry ==
    \/ \E n \in RecipeNames, t \in RecipeDescriptions : insert_to_recipe(connection, <<n, t>>)
    \/ \E r \in 1..MaxRows, m \in 1..Len(data.meals) : insert_to_serve(connection, <<r, m>>)
    \/ \E a \in Amounts, r \in 1..MaxRows, u \in 1..Len(data.measures), i \in 1..Len(data.ingredients) : insert_to_quantity(connection, <<"quantity", a, r, u, i>>)
    \/ \E ing \in SeqsUpTo(Range(data.ingredients), MaxArgs), ms \in MealLists : find_recipes(connection, <<ing, ms>>)

SpecEntry == InitEntry /\ [][NextEntry]_vars

\* The entry loop: a run of the program after its startup, recipe by recipe
NextMain ==
    \E n \in RecipeNames, t \in RecipeDescriptions, ds \in SeqsUpTo(1..Len(data.meals), MaxArgs), ls \in SeqsUpTo(Lines, MaxArgs) :
        main_entry(connection, n, t, ds, ls)

SpecMain == InitEntry /\ [][NextMain]_vars

(* ------------------------------- claims -------------------------------- *)

\* the generic primitives of the record access layer
GenericOps == {"insert_db", "insert_many_db", "db_update", "db_remove", "select_db", "select_all_db"}

\* the fetchall behind a result string: the name sequence that joins to it
Split(str) == CHOOSE names \in SeqsUpTo(RecipeNames, MaxRows) : Join(names) = str

\* how often x occurs in a sequence
Count(x, seq) == Cardinality({k \in 1..Len(seq) : seq[k] = x})

\* recipe r has a quantity row for the ingredient of this name
Contains(d, r, name) ==
    \E q \in d.quantity, i \in d.ingredients :
        q.recipe_id = r.recipe_id /\ q.ingredient_id = i.ingredient_id /\ i.ingredient_name = name

\* recipe r has a serve row for one of the meals of these names
Servable(d, r, meals) ==
    \E s \in d.serve, m \in d.meals :
        s.recipe_id = r.recipe_id /\ s.meal_id = m.meal_id /\ m.meal_name \in Range(meals)

\* C1: attach_serve with a recipe or meal id that does not exist, and
\* attach_quantity with a recipe, measure or ingredient id that does not exist,
\* fail with a constraint violation and add no row.
C1_ForeignKeysEnforced ==
    [][(\/ /\ last'.op = "insert_to_serve"
           /\ ~(Exists(db, "recipes", last'.args[1]) /\ Exists(db, "meals", last'.args[2]))
        \/ /\ last'.op = "insert_to_quantity"
           /\ ~(Exists(db, "recipes", last'.args[3]) /\ Exists(db, "measures", last'.args[4]) /\ Exists(db, "ingredients", last'.args[5])))
       => (last'.exc = "IntegrityError" /\ db' = db)]_vars

\* C2: insert_one(t, v) on a supported table t with v not yet present succeeds,
\* and select_one_by_name(t, v) then returns a row whose name column is v.
C2_InsertSelectRoundTrip ==
    [][(/\ last'.op = "insert_db"
        /\ attribute_conf(last'.args[1]) # None
        /\ ~\E r \in db[last'.args[1]] : r[attribute_conf(last'.args[1])] = last'.args[2])
       => (/\ last'.exc = "none"
           /\ LET found == select_db_call(db', db_connect(connection), last'.args)
              IN  /\ found.exc = "none"
                  /\ found.ret # <<>>
                  /\ found.ret[1][attribute_conf(last'.args[1])] = last'.args[2])]_vars

C4_SeedingIdempotent ==
    last.op = "main_startup"
    => /\ last.exc = "none"
       /\ \A t \in Range(data_keys) :
            /\ {r[attribute_conf(t)] : r \in db[t]} = Range(last.args[1][t])
            /\ Cardinality(db[t]) = Len(last.args[1][t])

\* C4 witness: seeded again, in another order than before, while a serve row and
\* a quantity row of an earlier run point at rows of the reference tables
C4_Witness ==
    /\ last.op = "main_startup"
    /\ last.args[1].meals = Reverse(data.meals)
    /\ Referenced(db, "meals")
    /\ Referenced(db, "ingredients")

\* C5: with a usable handle, reset_reference_tables empties meals, ingredients
\* and measures and leaves the rows of recipes, serve and quantity as they were.
C5_TruncateFrame ==
    [][(last'.op = "truncate_tables" /\ ~last'.conn.closed)
       => (/\ last'.exc = "none"
           /\ db'.meals = {} /\ db'.ingredients = {} /\ db'.measures = {}
           /\ db'.recipes = db.recipes /\ db'.serve = db.serve /\ db'.quantity = db.quantity)]_vars

\* C5 witness: the reference tables were cleared while recipes, serve and quantity hold rows
C5_Witness ==
    /\ last.op = "truncate_tables"
    /\ last.exc = "none"
    /\ db.meals = {}
    /\ db.recipes # {} /\ db.serve # {} /\ db.quantity # {}

\* C6: with more than one ingredient name, the name of a recipe is in the result
\* exactly when that recipe itself has a quantity row for every requested
\* ingredient and a serve row for one of the requested meals, and then it is
\* there once.
C6_MultiIngredientSearch ==
    (/\ last.op = "find_recipes"
     /\ Len(last.args[1]) > 1
     /\ Cardinality(Range(last.args[1])) = Len(last.args[1])
     /\ last.exc = "none")
    => \A r \in db.recipes :
          LET matches == /\ \A name \in Range(last.args[1]) : Contains(db, r, name)
                         /\ Servable(db, r, last.args[2])
          IN  /\ (r.recipe_name \in Range(Split(last.ret))) <=> matches
              /\ matches => Count(r.recipe_name, Split(last.ret)) = 1

C8_EmptySearchArguments ==
    (last.op = "find_recipes" /\ (last.args[1] = <<>> \/ last.args[2] = <<>>))
    => (last.exc = "none" /\ last.ret = "")

\* C9: a generic primitive called with a table name outside the registry fails
\* with the unsupported-table error and leaves the store alone.
C9_UnsupportedTableRejected ==
    [][(last'.op \in GenericOps /\ attribute_conf(last'.args[1]) = None)
       => (last'.exc = "ValueError: Unsupported table name" /\ db' = db)]_vars

\* C10: update_name(table, new_value) on a supported table succeeds, sets the
\* name column of every row of the table to new_value and changes neither the
\* number of rows nor any other table.
C10_UpdateSetsAllNames ==
    [][(last'.op = "db_update" /\ Len(last'.args) = 2 /\ attribute_conf(last'.args[1]) # None)
       => (/\ last'.exc = "none"
           /\ \A r \in db'[last'.args[1]] : r[attribute_conf(last'.args[1])] = last'.args[2]
           /\ Cardinality(db'[last'.args[1]]) = Cardinality(db[last'.args[1]])
           /\ \A u \in AllTables \ {last'.args[1]} : db'[u] = db[u])]_vars

\* C11: delete_by_name(table, value) on a supported table succeeds, removes
\* exactly the rows of the table whose name column equals value and leaves
\* every other row and every other table as it was.
C11_RemoveDeletesMatching ==
    [][(last'.op = "db_remove" /\ Len(last'.args) = 2 /\ attribute_conf(last'.args[1]) # None)
       => (/\ last'.exc = "none"
           /\ db'[last'.args[1]] = {r \in db[last'.args[1]] : r[attribute_conf(last'.args[1])] # last'.args[2]}
           /\ \A u \in AllTables \ {last'.args[1]} : db'[u] = db[u]
           /\ db'.sqlite_sequence = db.sqlite_sequence)]_vars

\* the outcome of the schema operation op on a usable handle
OnUsableHandle(op, d) ==
    IF op = "truncate_tables" THEN truncate_tables_call(d, connection)
    ELSE generate_tables_call(d, connection)

\* C12: a primitive called with a handle that is no longer usable reopens the
\* store and completes with the effect and the result it has on a usable
\* handle; the caller does not see the stale-handle error.  The closed handle
\* is passed to schema creation and to reset_reference_tables.
C12_StaleHandleRecovered ==
    [][(last'.conn.closed /\ last'.op \in {"generate_tables", "truncate_tables"})
       => (/\ last'.exc = OnUsableHandle(last'.op, db).exc
           /\ last'.ret = OnUsableHandle(last'.op, db).ret
           /\ db' = OnUsableHandle(last'.op, db).db)]_vars

\* the primitives that write rows
Mutating == {"insert_db", "insert_many_db", "db_update", "db_remove", "insert_to_recipe", "insert_to_serve", "insert_to_quantity"}

\* C13: when a mutating primitive has returned or raised, every handle it
\* acquired for the call is released, so the open handles never outnumber
\* those the caller opened itself.
C13_HandlesReleased ==
    last.op \in Mutating => last.unreleased = 0

\* C14: the serve and quantity rows created while a recipe is entered carry
\* the recipe id of the recipes row created in that same entry.
C14_EntryRowsCarryNewRecipeId ==
    [][(last'.op = "main_entry")
       => (/\ \A s \in db'.serve \ db.serve : \E r \in db'.recipes \ db.recipes : s.recipe_id = r.recipe_id
           /\ \A q \in db'.quantity \ db.quantity : \E r \in db'.recipes \ db.recipes : q.recipe_id = r.recipe_id)]_vars

====
